---- MODULE Spec2Model ----
(***************************************************************************)
(* SwasthyaCare: the appointment slot-allocation and conflict-resolution   *)
(* engine of hospital/views.py, hospital/forms.py and hospital/models.py.  *)
(*                                                                         *)
(* The store is the relational database: one sequence per table, a row's   *)
(* id being its index.  Times of day are minutes since midnight, dates are *)
(* day numbers.  Every request handler is one action; the handlers of the  *)
(* concurrent specification are split at the point where the checks have   *)
(* been read and the write has not been issued yet.                        *)
(***************************************************************************)
EXTENDS Integers, Sequences, FiniteSets, TLC

\* ------------------------------------------------------------------ bounds
\* the store holds at most this many rows (appointments, availability windows,
\* surgeries and reschedule records together) in the runs of Spec
MaxRows == 5
\* rows per table in the runs of SpecSlots
MaxSlotAppts == 3
MaxSlotWindows == 1
MaxSlotSurgeries == 1
MaxSlotRecords == 3
\* requests between their checks and their writes, and rows of the store, in the
\* runs of SpecConc
MaxInflight == 2
\* days that pass, and rows of the store, in the runs of SpecSelf
MaxDays == 1
MaxSelfRows == 5
\* rows per table in the runs of SpecWindow
MaxWindowAppts == 2
MaxWindowSurgeries == 1
MaxWindowRecords == 2
\* rows per table in the runs of SpecSurgery
MaxSurgAppts == 2
MaxSurgSurgeries == 1
MaxSurgWindows == 1
MaxSurgRecords == 1
\* the follow-up chains: rows per table and requests in flight
MaxChainAppts == 3
MaxChainSurgeries == 1
MaxChainRecords == 1

\* the race for one slot: appointments and requests in flight
MaxRaceAppts == 4
MaxRaceInflight == 3

\* the approvals in flight
MaxApproveSurgeries == 2
MaxApproveInflight == 2

\* the passes of one batch
MaxBatchAppts == 2
MaxBatchSurgeries == 1
MaxBatchRecords == 2
MaxBatchInflight == 1

\* the batches whose deliveries fail
MaxFaultAppts == 3
MaxFaultSurgeries == 1
MaxFaultRecords == 3

\* the posted batch
MaxPostedAppts == 3
MaxPostedSurgeries == 1
MaxPostedRecords == 2

\* a decision and a batch in flight together
MaxLateAppts == 1
MaxLateSurgeries == 1
MaxLateRecords == 1
MaxLateInflight == 2

\* the status changes around a reschedule in flight
MaxStatusAppts == 2
MaxStatusInflight == 1

\* the reminder runs
MaxReminderAppts == 2
MaxReminderInflight == 2
MaxMails == 2

MaxConcRows == 4

\* --------------------------------------------------------------- constants
\* date.today(): the day the requests are made on
Today == 1
\* null=True of DoctorAvailability.date, and an absent foreign key
NoDate == -1
None == 0
\* time(9, 0) and time(20, 0)
hospital_open == 540
hospital_close == 1200

Doctors == {"d1", "d2"}
Dates == {0, 1}

time(h, m) == h * 60 + m
hour(t) == t \div 60
minute(t) == t % 60

\* the choices of AppointmentForm.appointment_time: 09:00 .. 19:45 by quarters
slots == {time(h, m) : h \in 9..19, m \in {0, 15, 30, 45}}

\* ----------------------------------------------------------------- helpers
Range(f) == {f[i] : i \in DOMAIN f}

get_slot_start(t) == time(hour(t), (minute(t) \div 15) * 15)

\* slot_end of create_follow_up, reschedule_appointment and the bulk reschedule
slot_end(slot_start) ==
    IF minute(slot_start) = 0 THEN time(hour(slot_start), 14)
    ELSE IF minute(slot_start) = 15 THEN time(hour(slot_start), 29)
    ELSE IF minute(slot_start) = 30 THEN time(hour(slot_start), 44)
    ELSE time(hour(slot_start), 59)

\* slot_end of create_appointment
booking_slot_end(slot_start) ==
    IF minute(slot_start) = 0 THEN time(hour(slot_start), 29)
    ELSE time(hour(slot_start), 59)

\* Appointment.objects.filter(doctor, appointment_date, appointment_time__gte,
\* appointment_time__lte, status='SCHEDULED'), as a set of ids
scheduled_between(ap, d, dt, lo, hi) ==
    {i \in DOMAIN ap : /\ ap[i].doctor = d
                       /\ ap[i].date = dt
                       /\ ap[i].time >= lo
                       /\ ap[i].time <= hi
                       /\ ap[i].status = "SCHEDULED"}

\* DoctorAvailability.objects.filter(Q(doctor, date, ...) | Q(doctor, is_recurring, ...)).exists()
unavailable(av, d, dt, t) ==
    \E i \in DOMAIN av :
        /\ av[i].doctor = d
        /\ av[i].start_time <= t
        /\ av[i].end_time > t
        /\ (av[i].date = dt \/ av[i].is_recurring)

\* unique_together = ['doctor', 'appointment_date', 'appointment_time']:
\* no row other than self (None for a new row) holds the triple, whatever its status
unique_together(ap, self, d, dt, t) ==
    ~ \E i \in DOMAIN ap :
        i # self /\ ap[i].doctor = d /\ ap[i].date = dt /\ ap[i].time = t


\* --------------------------------------------------------------- the store
VARIABLES
    appts,        \* Appointment rows: [doctor, date, time, status, parent, reminder_sent]
    avail,        \* DoctorAvailability rows: [doctor, date, is_recurring, start_time, end_time]
    surgeries,    \* UrgentSurgery rows
    reschedules,  \* AppointmentReschedule rows
    notifs,       \* Notification rows
    last,         \* the handler that ran last and how it answered
    inflight,     \* requests that have passed their checks and not written yet
    outbox        \* reminder e-mails accepted by the mail server

vars == <<appts, avail, surgeries, reschedules, notifs, last, inflight, outbox>>
store == <<appts, avail, surgeries, reschedules, notifs>>

\* the answer of a handler: how it ended, the row the request addressed (None for
\* a request that creates one) and the number of error messages it attached
Answer(op, reason, target) ==
    [op |-> op, reason |-> reason, target |-> target,
     errors |-> IF reason = "OK" THEN 0 ELSE 1]

Init ==
    /\ appts = << >>
    /\ avail = << >>
    /\ surgeries = << >>
    /\ reschedules = << >>
    /\ notifs = << >>
    /\ last = Answer("none", "OK", None)
    /\ inflight = << >>
    /\ outbox = << >>

Appointment(d, dt, t, parent) ==
    [doctor |-> d, date |-> dt, time |-> t, status |-> "SCHEDULED", parent |-> parent,
     reminder_sent |-> FALSE]

\* a save() on a table without the constraint
save_unconstrained(ap, self, row) == "OK"

\* Model.save() of an Appointment under unique_together: the row is written, or
\* the store raises IntegrityError and writes nothing
save_reason(ap, self, row) ==
    IF unique_together(ap, self, row.doctor, row.date, row.time)
    THEN "OK" ELSE "INTEGRITY_ERROR"

\* ------------------------------------------------------- create_appointment
\* ModelForm.validate_unique of AppointmentForm: doctor, date and time are all
\* fields of the form, so is_valid() checks unique_together
AppointmentForm_is_valid(ap, d, dt, t) ==
    t \in slots /\ unique_together(ap, None, d, dt, t)

slot_count(ap, d, dt, t) ==
    Cardinality(scheduled_between(ap, d, dt, get_slot_start(t),
                                  booking_slot_end(get_slot_start(t))))

duplicate(ap, self, d, dt, t) ==
    \E i \in DOMAIN ap :
        /\ i # self
        /\ ap[i].doctor = d /\ ap[i].date = dt /\ ap[i].time = t
        /\ ap[i].status = "SCHEDULED"

create_appointment_checks(ap, av, d, dt, t) ==
    IF ~AppointmentForm_is_valid(ap, d, dt, t) THEN "FORM_INVALID"
    ELSE IF t < hospital_open \/ t >= hospital_close THEN "OUTSIDE_HOURS"
    ELSE IF slot_count(ap, d, dt, t) >= 2 THEN "SLOT_FULL"
    ELSE IF unavailable(av, d, dt, t) THEN "DOCTOR_UNAVAILABLE"
    ELSE IF duplicate(ap, None, d, dt, t) THEN "TIME_ALREADY_BOOKED"
    ELSE "OK"

create_appointment(d, dt, t) ==
    LET row == Appointment(d, dt, t, None)
        c == create_appointment_checks(appts, avail, d, dt, t)
        r == IF c = "OK" THEN save_reason(appts, None, row) ELSE c
    IN  /\ appts' = IF r = "OK" THEN Append(appts, row) ELSE appts
        /\ last' = Answer("create_appointment", r, None)
        /\ UNCHANGED <<avail, surgeries, reschedules, notifs, inflight, outbox>>

\* --------------------------------------------------------- create_follow_up
\* the slot query without .exclude(id=...)
slot_conflict_any(ap, self, d, dt, t) ==
    scheduled_between(ap, d, dt, get_slot_start(t), slot_end(get_slot_start(t))) # {}

slot_conflict(ap, self, d, dt, t) ==
    scheduled_between(ap, d, dt, get_slot_start(t), slot_end(get_slot_start(t)))
        \ {self} # {}

create_follow_up_checks(ap, av, user, parent, dt, t) ==
    IF ap[parent].doctor # user THEN "NOT_OWNER"
    ELSE IF t < hospital_open \/ t >= hospital_close THEN "OUTSIDE_HOURS"
    ELSE IF unavailable(av, user, dt, t) THEN "DOCTOR_UNAVAILABLE"
    ELSE IF slot_conflict(ap, None, user, dt, t) THEN "SLOT_FULL"
    ELSE "OK"

\* the view also linking the parent to its new follow-up
create_follow_up_linking_back(user, parent, dt, t) ==
    LET row == Appointment(user, dt, t, parent)
        c == create_follow_up_checks(appts, avail, user, parent, dt, t)
        r == IF c = "OK" THEN save_reason(appts, None, row) ELSE c
    IN  /\ parent \in DOMAIN appts
        /\ appts' = IF r = "OK"
                    THEN Append([appts EXCEPT ![parent].parent = Len(appts) + 1], row)
                    ELSE appts
        /\ last' = Answer("create_follow_up", r, parent)
        /\ UNCHANGED <<avail, surgeries, reschedules, notifs, inflight, outbox>>

create_follow_up(user, parent, dt, t) ==
    LET row == Appointment(user, dt, t, parent)
        c == create_follow_up_checks(appts, avail, user, parent, dt, t)
        r == IF c = "OK" THEN save_reason(appts, None, row) ELSE c
    IN  /\ parent \in DOMAIN appts
        /\ appts' = IF r = "OK" THEN Append(appts, row) ELSE appts
        /\ last' = Answer("create_follow_up", r, parent)
        /\ UNCHANGED <<avail, surgeries, reschedules, notifs, inflight, outbox>>

\* --------------------------------------------------- reschedule_appointment
reschedule_appointment_checks(ap, av, a, dt, t) ==
    IF t < hospital_open \/ t >= hospital_close THEN "OUTSIDE_HOURS"
    ELSE IF unavailable(av, ap[a].doctor, dt, t) THEN "DOCTOR_UNAVAILABLE"
    ELSE IF slot_conflict(ap, a, ap[a].doctor, dt, t) THEN "SLOT_FULL"
    ELSE "OK"

reschedule_appointment(a, dt, t) ==
    LET row == [appts[a] EXCEPT !.date = dt, !.time = t]
        c == reschedule_appointment_checks(appts, avail, a, dt, t)
        r == IF c = "OK" THEN save_reason(appts, a, row) ELSE c
    IN  /\ a \in DOMAIN appts
        /\ appts' = IF r = "OK" THEN [appts EXCEPT ![a] = row] ELSE appts
        /\ last' = Answer("reschedule_appointment", r, a)
        /\ UNCHANGED <<avail, surgeries, reschedules, notifs, inflight, outbox>>

\* ------------------------------------------------------------ status changes
cancel_appointment(a) ==
    /\ a \in DOMAIN appts
    /\ appts' = [appts EXCEPT ![a].status = "CANCELLED"]
    /\ last' = Answer("cancel_appointment", "OK", a)
    /\ UNCHANGED <<avail, surgeries, reschedules, notifs, inflight, outbox>>

update_appointment_status(user, a, status) ==
    LET r == IF appts[a].doctor # user THEN "NOT_OWNER"
             ELSE IF status \in {"COMPLETED", "NO_SHOW"} THEN "OK"
             ELSE "INVALID_STATUS"
    IN  /\ a \in DOMAIN appts
        /\ appts' = IF r = "OK" THEN [appts EXCEPT ![a].status = status] ELSE appts
        /\ last' = Answer("update_appointment_status", r, a)
        /\ UNCHANGED <<avail, surgeries, reschedules, notifs, inflight, outbox>>

\* add_medical_record with action 'complete'
add_medical_record(user, a) ==
    LET r == IF appts[a].doctor # user THEN "NOT_OWNER" ELSE "OK"
    IN  /\ a \in DOMAIN appts
        /\ appts' = IF r = "OK" THEN [appts EXCEPT ![a].status = "COMPLETED"] ELSE appts
        /\ last' = Answer("add_medical_record", r, a)
        /\ UNCHANGED <<avail, surgeries, reschedules, notifs, inflight, outbox>>


\* ------------------------------------------------------------- availability
\* the form without its comparison of end_time and start_time
DoctorAvailabilityForm_clean_any_times(is_recurring, dt, st, en) ==
    IF ~is_recurring /\ dt = NoDate THEN "FORM_INVALID" ELSE "OK"

\* DoctorAvailabilityForm.clean, then form.save: a recurring window is stored
\* without its date
DoctorAvailabilityForm_clean(is_recurring, dt, st, en) ==
    IF ~is_recurring /\ dt = NoDate THEN "FORM_INVALID"
    ELSE IF en <= st THEN "FORM_INVALID"
    ELSE "OK"

manage_availability(user, is_recurring, dt, st, en) ==
    LET r == DoctorAvailabilityForm_clean(is_recurring, dt, st, en)
        row == [doctor |-> user, date |-> IF is_recurring THEN NoDate ELSE dt,
                is_recurring |-> is_recurring, start_time |-> st, end_time |-> en]
    IN  /\ avail' = IF r = "OK" THEN Append(avail, row) ELSE avail
        /\ last' = Answer("manage_availability", r, None)
        /\ UNCHANGED <<appts, surgeries, reschedules, notifs, inflight, outbox>>

delete_availability(user, w) ==
    LET r == IF avail[w].doctor # user THEN "NOT_OWNER" ELSE "OK"
    IN  /\ w \in DOMAIN avail
        /\ avail' = IF r = "OK"
                    THEN SubSeq(avail, 1, w - 1) \o SubSeq(avail, w + 1, Len(avail))
                    ELSE avail
        /\ last' = Answer("delete_availability", r, w)
        /\ UNCHANGED <<appts, surgeries, reschedules, notifs, inflight, outbox>>

\* ----------------------------------------------------------- urgent surgery
Notification(type, recipient, s, a) ==
    [type |-> type, recipient |-> recipient, surgery |-> s, appointment |-> a]

UrgentSurgeryForm_clean(dt, st, en) ==
    IF en <= st THEN "FORM_INVALID"
    ELSE IF dt < Today THEN "PAST_DATE"
    ELSE "OK"

UrgentSurgery(d, dt, st, en, status, created_by, approved_by) ==
    [doctor |-> d, date |-> dt, start_time |-> st, end_time |-> en,
     status |-> status, created_by |-> created_by, approved_by |-> approved_by,
     rejection_reason |-> FALSE]

\* the doctor field of the form is hidden for a doctor and still posted
create_urgent_surgery_doctor(user, d, dt, st, en) ==
    LET r == UrgentSurgeryForm_clean(dt, st, en)
    IN  /\ surgeries' = IF r = "OK"
                        THEN Append(surgeries,
                                    UrgentSurgery(d, dt, st, en, "APPROVED", user, user))
                        ELSE surgeries
        /\ last' = Answer("create_urgent_surgery_doctor", r, None)
        /\ UNCHANGED <<appts, avail, reschedules, notifs, inflight, outbox>>

create_urgent_surgery_receptionist(d, dt, st, en) ==
    LET r == UrgentSurgeryForm_clean(dt, st, en)
    IN  /\ surgeries' = IF r = "OK"
                        THEN Append(surgeries,
                                    UrgentSurgery(d, dt, st, en, "PENDING",
                                                  "receptionist", "none"))
                        ELSE surgeries
        /\ notifs' = IF r = "OK"
                     THEN Append(notifs, Notification("SURGERY_APPROVAL_PENDING", d,
                                                      Len(surgeries) + 1, None))
                     ELSE notifs
        /\ last' = Answer("create_urgent_surgery_receptionist", r, None)
        /\ UNCHANGED <<appts, avail, reschedules, inflight, outbox>>

\* SurgeryApprovalForm.clean
SurgeryApprovalForm_clean(status, has_reason) ==
    IF status = "REJECTED" /\ ~has_reason THEN "FORM_INVALID" ELSE "OK"

\* the view without its test of surgery.status
approve_surgery_checks_any_status(sg, user, s, status, has_reason) ==
    IF sg[s].doctor # user THEN "NOT_OWNER"
    ELSE SurgeryApprovalForm_clean(status, has_reason)

approve_surgery_checks(sg, user, s, status, has_reason) ==
    IF sg[s].doctor # user THEN "NOT_OWNER"
    ELSE IF sg[s].status # "PENDING" THEN "ALREADY_PROCESSED"
    ELSE SurgeryApprovalForm_clean(status, has_reason)

approve_surgery(user, s, status, has_reason) ==
    LET r == approve_surgery_checks(surgeries, user, s, status, has_reason)
    IN  /\ s \in DOMAIN surgeries
        /\ surgeries' = IF r = "OK"
                        THEN [surgeries EXCEPT ![s].status = status,
                                               ![s].approved_by = user,
                                               ![s].rejection_reason = (status = "REJECTED")]
                        ELSE surgeries
        /\ notifs' = IF r = "OK"
                     THEN Append(notifs, Notification("SURGERY_" \o status,
                                                      surgeries[s].created_by, s, None))
                     ELSE notifs
        /\ last' = Answer("approve_surgery", r, s)
        /\ UNCHANGED <<appts, avail, reschedules, inflight, outbox>>

\* the query with appointment_time__lte for the end of the surgery
get_conflicting_closed(ap, surgery) ==
    {i \in DOMAIN ap : /\ ap[i].doctor = surgery.doctor
                       /\ ap[i].date = surgery.date
                       /\ ap[i].time >= surgery.start_time
                       /\ ap[i].time <= surgery.end_time
                       /\ ap[i].status = "SCHEDULED"}

\* the query without the filter on status
get_conflicting_any_status(ap, surgery) ==
    {i \in DOMAIN ap : /\ ap[i].doctor = surgery.doctor
                       /\ ap[i].date = surgery.date
                       /\ ap[i].time >= surgery.start_time
                       /\ ap[i].time < surgery.end_time}

\* UrgentSurgery.get_conflicting_appointments, as a set of ids
get_conflicting_appointments(ap, surgery) ==
    {i \in DOMAIN ap : /\ ap[i].doctor = surgery.doctor
                       /\ ap[i].date = surgery.date
                       /\ ap[i].time >= surgery.start_time
                       /\ ap[i].time < surgery.end_time
                       /\ ap[i].status = "SCHEDULED"}

\* the queryset's rows in Appointment.Meta.ordering: latest time first
RECURSIVE ordering(_, _)
ordering(ap, ids) ==
    IF ids = {} THEN << >>
    ELSE LET m == CHOOSE i \in ids : \A j \in ids :
                      \/ ap[j].date < ap[i].date
                      \/ ap[j].date = ap[i].date /\ ap[j].time <= ap[i].time
         IN  <<m>> \o ordering(ap, ids \ {m})


\* ------------------------------------------------ bulk_reschedule_appointments
\* a posted proposal: new_date and new_time, or fields that are missing or do not parse
Proposal(dt, t) == [given |-> TRUE, date |-> dt, time |-> t]
NoProposal == [given |-> FALSE, date |-> NoDate, time |-> NoDate]

\* AppointmentRescheduleFormSingle.is_valid(): the fields, then clean()
AppointmentRescheduleFormSingle_clean(ap, av, doctor, a, p) ==
    IF ~p.given THEN "FORM_INVALID"
    ELSE IF p.date < Today THEN "PAST_DATE"
    ELSE IF unavailable(av, doctor, p.date, p.time) THEN "DOCTOR_UNAVAILABLE"
    ELSE IF duplicate(ap, a, doctor, p.date, p.time) THEN "TIME_ALREADY_BOOKED"
    ELSE "OK"

\* one pass of the validation loop: the form, then the checks of the view
bulk_item_reason(ap, av, doctor, a, p) ==
    LET f == AppointmentRescheduleFormSingle_clean(ap, av, doctor, a, p)
    IN  IF f # "OK" THEN f
        ELSE IF p.time < hospital_open \/ p.time >= hospital_close THEN "OUTSIDE_HOURS"
        ELSE IF unavailable(av, doctor, p.date, p.time) THEN "DOCTOR_UNAVAILABLE"
        ELSE IF slot_conflict(ap, a, doctor, p.date, p.time) THEN "SLOT_FULL"
        ELSE "OK"

\* a loop that skips an appointment whose fields were not posted
item_errors_given_only(ap, av, doctor, conflicts, props) ==
    {a \in conflicts : props[a].given /\ bulk_item_reason(ap, av, doctor, a, props[a]) # "OK"}

\* the appointments of the batch whose pass set all_valid = False
item_errors(ap, av, doctor, conflicts, props) ==
    {a \in conflicts : bulk_item_reason(ap, av, doctor, a, props[a]) # "OK"}

\* a flag that is set as soon as one pass succeeds
some_valid(ap, av, doctor, conflicts, props) ==
    item_errors(ap, av, doctor, conflicts, props) # conflicts

\* the flag all_valid after the validation loop
all_valid(ap, av, doctor, conflicts, props) ==
    item_errors(ap, av, doctor, conflicts, props) = {}

\* reschedule_data: one entry per appointment that passed, in queryset order,
\* holding the Appointment object as it was read
reschedule_data(ap, av, doctor, conflicts, props) ==
    LET ids == ordering(ap, conflicts \ item_errors(ap, av, doctor, conflicts, props))
    IN  [k \in 1..Len(ids) |->
            [appointment |-> ids[k], obj |-> ap[ids[k]],
             new_date |-> props[ids[k]].date, new_time |-> props[ids[k]].time]]

AppointmentReschedule(data, s) ==
    [appointment |-> data.appointment,
     original_date |-> data.obj.date, original_time |-> data.obj.time,
     new_date |-> data.new_date, new_time |-> data.new_time,
     urgent_surgery |-> s]

\* one pass of the processing loop on the store db = [ap, rs, nt, error]:
\* AppointmentReschedule.objects.create, appointment.save(), Notification.objects.create.
\* The view opens no transaction, so each statement commits on its own; an
\* IntegrityError of save() leaves the loop and the handler.
process_one(db, data, s) ==
    LET row == [data.obj EXCEPT !.date = data.new_date, !.time = data.new_time]
        rs1 == Append(db.rs, AppointmentReschedule(data, s))
    IN  IF save_reason(db.ap, data.appointment, row) # "OK"
        THEN [db EXCEPT !.rs = rs1, !.error = TRUE]
        ELSE [ap |-> [db.ap EXCEPT ![data.appointment] = row],
              rs |-> rs1,
              nt |-> Append(db.nt, Notification("APPOINTMENT_RESCHEDULED", "patient",
                                                None, data.appointment)),
              error |-> FALSE]

RECURSIVE process_all(_, _, _, _)
process_all(db, datas, s, k) ==
    IF k > Len(datas) \/ db.error THEN db
    ELSE process_all(process_one(db, datas[k], s), datas, s, k + 1)

\* the early returns without the test of surgery.doctor
bulk_reschedule_checks_any_doctor(ap, sg, user, s) ==
    IF sg[s].status # "APPROVED" THEN "NOT_APPROVED"
    ELSE IF get_conflicting_appointments(ap, sg[s]) = {} THEN "NO_CONFLICTS"
    ELSE "OK"

\* the early returns of the view
bulk_reschedule_checks(ap, sg, user, s) ==
    IF sg[s].doctor # user THEN "NOT_OWNER"
    ELSE IF sg[s].status # "APPROVED" THEN "NOT_APPROVED"
    ELSE IF get_conflicting_appointments(ap, sg[s]) = {} THEN "NO_CONFLICTS"
    ELSE "OK"

bulk_reschedule_appointments(user, s, props) ==
    LET c == bulk_reschedule_checks(appts, surgeries, user, s)
        conflicts == get_conflicting_appointments(appts, surgeries[s])
        bad == item_errors(appts, avail, user, conflicts, props)
        commit == c = "OK" /\ all_valid(appts, avail, user, conflicts, props)
        db == process_all([ap |-> appts, rs |-> reschedules, nt |-> notifs,
                           error |-> FALSE],
                          reschedule_data(appts, avail, user, conflicts, props), s, 1)
        r == IF c # "OK" THEN c
             ELSE IF bad # {} THEN "VALIDATION_FAILED"
             ELSE IF db.error THEN "INTEGRITY_ERROR"
             ELSE "OK"
    IN  /\ s \in DOMAIN surgeries
        /\ appts' = IF commit THEN db.ap ELSE appts
        /\ reschedules' = IF commit THEN db.rs ELSE reschedules
        /\ notifs' = IF commit THEN db.nt ELSE notifs
        /\ last' = [op |-> "bulk_reschedule_appointments", reason |-> r, target |-> s,
                    errors |-> IF c = "OK" THEN Cardinality(bad) ELSE 1]
        /\ UNCHANGED <<avail, surgeries, inflight, outbox>>

\* ------------------------------------------------- deliveries that can fail
\* The appointments of a batch for which Notification.objects.create raises, and
\* those for which rendering or sending the e-mail raises.
Faults(note, mail) == [note |-> note, mail |-> mail]

\* one pass of the processing loop under faults. Notification.objects.create
\* stands outside the try block: what it raises leaves the loop and the handler,
\* after the AppointmentReschedule and the appointment have been written. The
\* e-mail is built and sent inside try/except Exception, which logs and goes on.
process_one_faulty(db, data, s, faults) ==
    LET row == [data.obj EXCEPT !.date = data.new_date, !.time = data.new_time]
        rs1 == Append(db.rs, AppointmentReschedule(data, s))
        moved == [db.ap EXCEPT ![data.appointment] = row]
    IN  IF save_reason(db.ap, data.appointment, row) # "OK"
        THEN [db EXCEPT !.rs = rs1, !.error = TRUE]
        ELSE IF data.appointment \in faults.note
        THEN [db EXCEPT !.ap = moved, !.rs = rs1, !.error = TRUE]
        ELSE [ap |-> moved,
              rs |-> rs1,
              nt |-> Append(db.nt, Notification("APPOINTMENT_RESCHEDULED", "patient",
                                                None, data.appointment)),
              error |-> FALSE]

RECURSIVE process_all_faulty(_, _, _, _, _)
process_all_faulty(db, datas, s, k, faults) ==
    IF k > Len(datas) \/ db.error THEN db
    ELSE process_all_faulty(process_one_faulty(db, datas[k], s, faults), datas, s, k + 1,
                            faults)

\* bulk_reschedule_appointments when deliveries fail
bulk_reschedule_appointments_faulty(user, s, props, faults) ==
    LET c == bulk_reschedule_checks(appts, surgeries, user, s)
        conflicts == get_conflicting_appointments(appts, surgeries[s])
        bad == item_errors(appts, avail, user, conflicts, props)
        commit == c = "OK" /\ all_valid(appts, avail, user, conflicts, props)
        db == process_all_faulty([ap |-> appts, rs |-> reschedules, nt |-> notifs,
                                  error |-> FALSE],
                                 reschedule_data(appts, avail, user, conflicts, props),
                                 s, 1, faults)
        r == IF c # "OK" THEN c
             ELSE IF bad # {} THEN "VALIDATION_FAILED"
             ELSE IF db.error THEN "UNHANDLED_EXCEPTION"
             ELSE "OK"
    IN  /\ s \in DOMAIN surgeries
        /\ appts' = IF commit THEN db.ap ELSE appts
        /\ reschedules' = IF commit THEN db.rs ELSE reschedules
        /\ notifs' = IF commit THEN db.nt ELSE notifs
        /\ last' = [op |-> "bulk_reschedule_appointments", reason |-> r, target |-> s,
                    errors |-> IF c = "OK" THEN Cardinality(bad) ELSE 1]
        /\ UNCHANGED <<avail, surgeries, inflight, outbox>>

\* ------------------------------------------------------------ specification
\* The runs of Spec: one doctor's day, an urgent surgery over 09:00-09:30 and the
\* bulk reschedule of the appointments it conflicts with.
Rows == Len(appts) + Len(avail) + Len(surgeries) + Len(reschedules)
Fits == Rows' <= MaxRows

WinTimes == {525, 545}
SurgTimes == {540, 570}
Proposals ==
    {Proposal(0, 570), Proposal(1, 525), Proposal(1, 540), Proposal(1, 545),
     Proposal(1, 570), Proposal(1, 575), NoProposal}

Next ==
    \/ \E t \in {540, 555} : create_appointment("d1", Today, t) /\ Fits
    \/ \E a \in DOMAIN appts : cancel_appointment(a)
    \/ \E rec \in BOOLEAN, dt \in {NoDate, Today}, st \in WinTimes, en \in WinTimes :
           manage_availability("d1", rec, dt, st, en) /\ Fits
    \/ \E dt \in {0, Today}, st \in SurgTimes, en \in SurgTimes :
           create_urgent_surgery_doctor("d1", "d1", dt, st, en) /\ Fits
    \/ \E u \in Doctors, s \in DOMAIN surgeries :
           \E props \in [get_conflicting_appointments(appts, surgeries[s]) -> Proposals] :
               bulk_reschedule_appointments(u, s, props) /\ Fits

Spec == Init /\ [][Next]_vars

\* The runs of SpecSlots: the quarter-hour slots of the hour from 10:00, filled by
\* bookings, follow-ups and reschedules, and emptied into 10:00-10:14 by a bulk
\* reschedule; one window from 08:45 to 10:30.
FitsSlots ==
    /\ Len(appts') <= MaxSlotAppts
    /\ Len(avail') <= MaxSlotWindows
    /\ Len(surgeries') <= MaxSlotSurgeries
    /\ Len(reschedules') <= MaxSlotRecords

SlotProposals == {Proposal(Today, 600), Proposal(Today, 605), Proposal(Today, 610)}

NextSlots ==
    \/ \E t \in {615, 630, 645} : create_appointment("d1", Today, t) /\ FitsSlots
    \/ \E a \in DOMAIN appts : create_follow_up("d1", a, Today, 605) /\ FitsSlots
    \/ \E a \in DOMAIN appts : reschedule_appointment(a, Today, 605)
    \/ \E st \in {525, 630}, en \in {525, 630} :
           manage_availability("d1", TRUE, NoDate, st, en) /\ FitsSlots
    \/ create_urgent_surgery_doctor("d1", "d1", Today, 615, 660) /\ FitsSlots
    \/ \E s \in DOMAIN surgeries :
           \E props \in [get_conflicting_appointments(appts, surgeries[s]) -> SlotProposals] :
               bulk_reschedule_appointments("d1", s, props) /\ FitsSlots

SpecSlots == Init /\ [][NextSlots]_vars

\* ------------------------------------------------------ concurrent requests
\* The handlers run in worker threads or processes over one database and hold no
\* lock: a request reads and checks in one step and writes in a later one, and the
\* steps of other requests fall in between. inflight holds the requests that have
\* passed their checks, each with the objects it read.
Request(kind, a, row, s, datas) ==
    [kind |-> kind, a |-> a, row |-> row, s |-> s, datas |-> datas]

NoRow == Appointment("none", NoDate, NoDate, None)

Remove(q, k) == [i \in 1..(Len(q) - 1) |-> IF i < k THEN q[i] ELSE q[i + 1]]

Checked(op, target) == [op |-> op, reason |-> "CHECKED", target |-> target, errors |-> 0]

\* a handler up to its save(): the request waits in inflight if it passed
check(op, c, target, request) ==
    /\ inflight' = IF c = "OK" THEN Append(inflight, request) ELSE inflight
    /\ last' = IF c = "OK" THEN Checked(op, target) ELSE Answer(op, c, target)
    /\ UNCHANGED <<store, outbox>>

check_create_appointment(d, dt, t) ==
    check("create_appointment", create_appointment_checks(appts, avail, d, dt, t), None,
          Request("create_appointment", None, Appointment(d, dt, t, None), None, << >>))

check_create_follow_up(user, parent, dt, t) ==
    /\ parent \in DOMAIN appts
    /\ check("create_follow_up",
             create_follow_up_checks(appts, avail, user, parent, dt, t), parent,
             Request("create_follow_up", None, Appointment(user, dt, t, parent), None, << >>))

check_reschedule_appointment(a, dt, t) ==
    /\ a \in DOMAIN appts
    /\ check("reschedule_appointment",
             reschedule_appointment_checks(appts, avail, a, dt, t), a,
             Request("reschedule_appointment", a,
                     [appts[a] EXCEPT !.date = dt, !.time = t], None, << >>))

\* the early returns and the validation loop of bulk_reschedule_appointments
check_bulk_reschedule_appointments(user, s, props) ==
    LET c == bulk_reschedule_checks(appts, surgeries, user, s)
        conflicts == get_conflicting_appointments(appts, surgeries[s])
        bad == item_errors(appts, avail, user, conflicts, props)
        r == IF c # "OK" THEN c
             ELSE IF all_valid(appts, avail, user, conflicts, props) THEN "OK"
             ELSE "VALIDATION_FAILED"
    IN  /\ s \in DOMAIN surgeries
        /\ inflight' = IF r = "OK"
                       THEN Append(inflight,
                                   Request("bulk_reschedule_appointments", None, NoRow, s,
                                           reschedule_data(appts, avail, user, conflicts, props)))
                       ELSE inflight
        /\ last' = IF r = "OK" THEN Checked("bulk_reschedule_appointments", s)
                   ELSE [op |-> "bulk_reschedule_appointments", reason |-> r, target |-> s,
                         errors |-> IF c = "OK" THEN Cardinality(bad) ELSE 1]
        /\ UNCHANGED <<store, outbox>>

\* the save() of a booking, a follow-up or a single reschedule
save(k) ==
    LET q == inflight[k]
        r == save_reason(appts, q.a, q.row)
    IN  /\ k \in DOMAIN inflight
        /\ q.kind \in {"create_appointment", "create_follow_up", "reschedule_appointment"}
        /\ appts' = IF r # "OK" THEN appts
                    ELSE IF q.a = None THEN Append(appts, q.row)
                    ELSE [appts EXCEPT ![q.a] = q.row]
        /\ inflight' = Remove(inflight, k)
        /\ last' = Answer(q.kind, r, q.a)
        /\ UNCHANGED <<avail, surgeries, reschedules, notifs, outbox>>

\* one pass of the processing loop of a bulk reschedule
process(k) ==
    LET q == inflight[k]
        db == process_one([ap |-> appts, rs |-> reschedules, nt |-> notifs, error |-> FALSE],
                          Head(q.datas), q.s)
        done == db.error \/ Len(q.datas) = 1
    IN  /\ k \in DOMAIN inflight
        /\ q.kind = "bulk_reschedule_appointments"
        /\ appts' = db.ap
        /\ reschedules' = db.rs
        /\ notifs' = db.nt
        /\ inflight' = IF done THEN Remove(inflight, k)
                       ELSE [inflight EXCEPT ![k].datas = Tail(q.datas)]
        /\ last' = IF db.error THEN Answer(q.kind, "INTEGRITY_ERROR", q.s)
                   ELSE IF done THEN Answer(q.kind, "OK", q.s)
                   ELSE Checked(q.kind, q.s)
        /\ UNCHANGED <<avail, surgeries, outbox>>

\* approve_surgery up to surgery.save(): the request holds the UrgentSurgery
\* object it read, with the decision set on it
check_approve_surgery(user, s, status, has_reason) ==
    /\ s \in DOMAIN surgeries
    /\ check("approve_surgery",
             approve_surgery_checks(surgeries, user, s, status, has_reason), s,
             Request("approve_surgery", None,
                     [surgeries[s] EXCEPT !.status = status, !.approved_by = user,
                                          !.rejection_reason = (status = "REJECTED")],
                     s, << >>))

\* surgery.save() and Notification.objects.create of approve_surgery: every
\* column of the row is written from the object the request holds
save_surgery(k) ==
    LET q == inflight[k]
    IN  /\ k \in DOMAIN inflight
        /\ q.kind = "approve_surgery"
        /\ surgeries' = [surgeries EXCEPT ![q.s] = q.row]
        /\ notifs' = Append(notifs, Notification("SURGERY_" \o q.row.status,
                                                 q.row.created_by, q.s, None))
        /\ inflight' = Remove(inflight, k)
        /\ last' = Answer("approve_surgery", "OK", q.s)
        /\ UNCHANGED <<appts, avail, reschedules, outbox>>

\* ------------------------------------------------------- the reminder job
\* the queryset of Command.handle: tomorrow's SCHEDULED appointments that have
\* no reminder yet
due(ap) ==
    {i \in DOMAIN ap : /\ ap[i].date = Today + 1
                       /\ ap[i].status = "SCHEDULED"
                       /\ ~ap[i].reminder_sent}

running == \E k \in DOMAIN inflight : inflight[k].kind = "send_appointment_reminders"

\* Command.handle up to its loop. run_scheduler calls the command again only
\* after it has returned. The queryset is read once, when the loop starts; the
\* run holds the Appointment objects of that read while the web requests go on.
handle ==
    LET ids == ordering(appts, due(appts))
        datas == [k \in 1..Len(ids) |-> [appointment |-> ids[k], obj |-> appts[ids[k]]]]
    IN  /\ ~running
        /\ inflight' = IF ids = << >> THEN inflight
                       ELSE Append(inflight, Request("send_appointment_reminders", None,
                                                     NoRow, None, datas))
        /\ last' = IF ids = << >> THEN Answer("send_appointment_reminders", "OK", None)
                   ELSE Checked("send_appointment_reminders", None)
        /\ UNCHANGED <<store, outbox>>

\* what happens to the e-mail of one pass of the loop
Outcomes == {"SENT", "SEND_FAILED", "NO_EMAIL"}

\* one pass of the loop: the patient without an address is skipped; send_mail
\* raises or the mail is accepted; then reminder_sent is set on the object the
\* run holds and appointment.save() writes every column of the row from it.
\* Whatever is raised inside the pass is caught, counted and the loop goes on.
remind(k, outcome) ==
    LET q == inflight[k]
        data == Head(q.datas)
        row == [data.obj EXCEPT !.reminder_sent = TRUE]
        saved == outcome = "SENT" /\ save_reason(appts, data.appointment, row) = "OK"
    IN  /\ k \in DOMAIN inflight
        /\ q.kind = "send_appointment_reminders"
        /\ outbox' = IF outcome = "SENT"
                     THEN Append(outbox, [appointment |-> data.appointment])
                     ELSE outbox
        /\ appts' = IF saved THEN [appts EXCEPT ![data.appointment] = row] ELSE appts
        /\ inflight' = IF Len(q.datas) = 1 THEN Remove(inflight, k)
                       ELSE [inflight EXCEPT ![k].datas = Tail(q.datas)]
        /\ last' = Answer("send_appointment_reminders",
                          IF saved \/ outcome # "SENT" THEN outcome ELSE "INTEGRITY_ERROR",
                          data.appointment)
        /\ UNCHANGED <<avail, surgeries, reschedules, notifs>>

\* The runs of SpecConc: requests for 09:00 and 09:30 of one doctor's day, their
\* checks and writes interleaved.
FitsConc == Len(inflight') <= MaxInflight /\ Rows' <= MaxConcRows

NextConc ==
    \/ check_create_appointment("d1", Today, 540) /\ FitsConc
    \/ \E a \in DOMAIN appts : check_create_follow_up("d1", a, Today, 570) /\ FitsConc
    \/ \E a \in DOMAIN appts : check_reschedule_appointment(a, Today, 570) /\ FitsConc
    \/ \E s \in DOMAIN surgeries :
           \E props \in [get_conflicting_appointments(appts, surgeries[s])
                             -> {Proposal(Today, 570)}] :
               check_bulk_reschedule_appointments("d1", s, props) /\ FitsConc
    \/ \E k \in DOMAIN inflight : save(k) /\ FitsConc
    \/ \E k \in DOMAIN inflight : process(k) /\ FitsConc
    \/ create_urgent_surgery_doctor("d1", "d1", Today, 540, 570) /\ FitsConc

SpecConc == Init /\ [][NextConc]_vars

\* --------------------------------------------------------------- the clock
\* date.today() is one day later: dates are kept relative to Today, so every
\* stored date moves one day into the past
earlier(row, field) == [row EXCEPT ![field] = @ - 1]

next_day ==
    /\ \A i \in DOMAIN appts : appts[i].date > Today - MaxDays
    /\ \A i \in DOMAIN surgeries : surgeries[i].date > Today - MaxDays
    /\ \A i \in DOMAIN avail : avail[i].is_recurring \/ avail[i].date > Today - MaxDays
    /\ appts' = [i \in DOMAIN appts |-> earlier(appts[i], "date")]
    /\ avail' = [i \in DOMAIN avail |->
                     IF avail[i].is_recurring THEN avail[i] ELSE earlier(avail[i], "date")]
    /\ surgeries' = [i \in DOMAIN surgeries |-> earlier(surgeries[i], "date")]
    /\ reschedules' = [i \in DOMAIN reschedules |->
                           earlier(earlier(reschedules[i], "original_date"), "new_date")]
    /\ last' = Answer("next_day", "OK", None)
    /\ UNCHANGED <<notifs, inflight, outbox>>

\* The runs of SpecSelf: appointments of one doctor, rescheduled to the time they
\* have, one at a time and as items of a bulk reschedule, today and a day later.
FitsSelf == Rows' <= MaxSelfRows

\* proposals that keep some appointments of the batch where they are and move the
\* others to 09:30
SelfProposals(conflicts) ==
    {[a \in conflicts |-> IF a \in keep THEN Proposal(appts[a].date, appts[a].time)
                          ELSE Proposal(appts[a].date, 570)] : keep \in SUBSET conflicts}

NextSelf ==
    \/ \E t \in {540, 555} : create_appointment("d1", Today, t) /\ FitsSelf
    \/ \E a \in DOMAIN appts : reschedule_appointment(a, appts[a].date, appts[a].time)
    \/ manage_availability("d1", TRUE, NoDate, 555, 570) /\ FitsSelf
    \/ create_urgent_surgery_doctor("d1", "d1", Today, 540, 570) /\ FitsSelf
    \/ \E s \in DOMAIN surgeries :
           \E props \in SelfProposals(get_conflicting_appointments(appts, surgeries[s])) :
               bulk_reschedule_appointments("d1", s, props) /\ FitsSelf
    \/ next_day

SpecSelf == Init /\ [][NextSelf]_vars

\* The runs of SpecWindow: appointments of two doctors at the start and at the end
\* of a surgery 09:00-09:30, moved to another date, cancelled and completed before
\* the surgery's conflicts are rescheduled.
FitsWindow ==
    /\ Len(appts') <= MaxWindowAppts
    /\ Len(surgeries') <= MaxWindowSurgeries
    /\ Len(reschedules') <= MaxWindowRecords

NextWindow ==
    \/ \E d \in Doctors, t \in {540, 570} : create_appointment(d, Today, t) /\ FitsWindow
    \/ \E a \in DOMAIN appts, dt \in {0, Today} : reschedule_appointment(a, dt, 555)
    \/ \E a \in DOMAIN appts : cancel_appointment(a)
    \/ \E a \in DOMAIN appts :
           update_appointment_status(appts[a].doctor, a, "COMPLETED")
    \/ \E dt \in {0, Today} :
           create_urgent_surgery_doctor("d1", "d1", dt, 540, 570) /\ FitsWindow
    \/ \E s \in DOMAIN surgeries :
           \E props \in [get_conflicting_appointments(appts, surgeries[s])
                             -> {Proposal(0, 585), Proposal(Today, 585)}] :
               bulk_reschedule_appointments("d1", s, props) /\ FitsWindow

SpecWindow == Init /\ [][NextWindow]_vars

\* The runs of SpecSurgery: two doctors and the receptionist ask for surgeries,
\* and each doctor acts on the surgeries, windows and appointments of both.
FitsSurgery ==
    /\ Len(appts') <= MaxSurgAppts
    /\ Len(surgeries') <= MaxSurgSurgeries
    /\ Len(avail') <= MaxSurgWindows
    /\ Len(reschedules') <= MaxSurgRecords

NextSurgery ==
    \/ \E u \in Doctors, d \in Doctors :
           create_urgent_surgery_doctor(u, d, Today, 540, 570) /\ FitsSurgery
    \/ \E d \in Doctors :
           create_urgent_surgery_receptionist(d, Today, 540, 570) /\ FitsSurgery
    \/ \E u \in Doctors, s \in DOMAIN surgeries :
           \E status \in {"APPROVED", "REJECTED"}, has_reason \in BOOLEAN :
               approve_surgery(u, s, status, has_reason)
    \/ \E d \in Doctors : create_appointment(d, Today, 540) /\ FitsSurgery
    \/ \E u \in Doctors, a \in DOMAIN appts :
           create_follow_up(u, a, Today, 600) /\ FitsSurgery
    \/ \E u \in Doctors, a \in DOMAIN appts :
           \E status \in {"COMPLETED", "SCHEDULED"} : update_appointment_status(u, a, status)
    \/ \E u \in Doctors : manage_availability(u, TRUE, NoDate, 720, 780) /\ FitsSurgery
    \/ \E u \in Doctors, w \in DOMAIN avail : delete_availability(u, w)
    \/ \E u \in Doctors, s \in DOMAIN surgeries :
           \E props \in [get_conflicting_appointments(appts, surgeries[s])
                             -> {Proposal(Today, 585)}] :
               bulk_reschedule_appointments(u, s, props) /\ FitsSurgery

SpecSurgery == Init /\ [][NextSurgery]_vars

\* The runs of SpecChain: one doctor's appointments and the follow-ups of
\* follow-ups, moved, cancelled and completed, and a surgery with its bulk
\* reschedule.
FitsChain ==
    /\ Len(appts') <= MaxChainAppts
    /\ Len(surgeries') <= MaxChainSurgeries
    /\ Len(reschedules') <= MaxChainRecords

NextChain ==
    \/ create_appointment("d1", Today, 540) /\ FitsChain
    \/ \E a \in DOMAIN appts, t \in {615, 630} :
           create_follow_up("d1", a, Today, t) /\ FitsChain
    \/ \E a \in DOMAIN appts : reschedule_appointment(a, Today, 630)
    \/ \E a \in DOMAIN appts : cancel_appointment(a)
    \/ \E a \in DOMAIN appts : update_appointment_status("d1", a, "COMPLETED")
    \/ create_urgent_surgery_doctor("d1", "d1", Today, 540, 570) /\ FitsChain
    \/ \E s \in DOMAIN surgeries :
           \E props \in [get_conflicting_appointments(appts, surgeries[s])
                             -> {Proposal(Today, 585)}] :
               bulk_reschedule_appointments("d1", s, props) /\ FitsChain

SpecChain == Init /\ [][NextChain]_vars

\* The runs of SpecRace: bookings and follow-ups of one doctor for minutes of the
\* quarter hour from 10:00, each request checking before the others have saved.
RaceTimes == {600, 605, 610}

FitsRace == Len(appts') <= MaxRaceAppts /\ Len(inflight') <= MaxRaceInflight

NextRace ==
    \/ create_appointment("d1", Today, 540) /\ FitsRace
    \/ check_create_appointment("d1", Today, 600) /\ FitsRace
    \/ \E a \in DOMAIN appts, t \in RaceTimes :
           check_create_follow_up("d1", a, Today, t) /\ FitsRace
    \/ \E k \in DOMAIN inflight : save(k) /\ FitsRace

SpecRace == Init /\ [][NextRace]_vars

\* The runs of SpecApprove: surgeries requested by the receptionist for a doctor,
\* and that doctor's decisions, two of them in flight for one surgery.
FitsApprove ==
    Len(surgeries') <= MaxApproveSurgeries /\ Len(inflight') <= MaxApproveInflight

NextApprove ==
    \/ \E d \in Doctors :
           create_urgent_surgery_receptionist(d, Today, 540, 570) /\ FitsApprove
    \/ \E u \in Doctors, s \in DOMAIN surgeries :
           \E status \in {"APPROVED", "REJECTED"}, has_reason \in BOOLEAN :
               check_approve_surgery(u, s, status, has_reason) /\ FitsApprove
    \/ \E k \in DOMAIN inflight : save_surgery(k)

SpecApprove == Init /\ [][NextApprove]_vars

\* The runs of SpecBatch: two appointments inside a surgery window and the bulk
\* reschedule of both, one pass of its processing loop at a time.
FitsBatch ==
    /\ Len(appts') <= MaxBatchAppts
    /\ Len(surgeries') <= MaxBatchSurgeries
    /\ Len(reschedules') <= MaxBatchRecords
    /\ Len(inflight') <= MaxBatchInflight

NextBatch ==
    \/ \E t \in {540, 555} : create_appointment("d1", Today, t) /\ FitsBatch
    \/ create_urgent_surgery_doctor("d1", "d1", Today, 540, 570) /\ FitsBatch
    \/ \E s \in DOMAIN surgeries :
           \E props \in [get_conflicting_appointments(appts, surgeries[s])
                             -> {Proposal(Today, 585), Proposal(Today, 600), NoProposal}] :
               check_bulk_reschedule_appointments("d1", s, props) /\ FitsBatch
    \/ \E k \in DOMAIN inflight : process(k) /\ FitsBatch

SpecBatch == Init /\ [][NextBatch]_vars

\* The runs of SpecFaults: appointments inside a surgery window and their bulk
\* reschedule, each appointment to a time of its own, while the deliveries for
\* some of them fail.
FitsFaults ==
    /\ Len(appts') <= MaxFaultAppts
    /\ Len(surgeries') <= MaxFaultSurgeries
    /\ Len(reschedules') <= MaxFaultRecords

own_time(conflicts) == [a \in conflicts |-> Proposal(Today, 600 + 15 * a)]

NextFaults ==
    \/ \E t \in {540, 555} : create_appointment("d1", Today, t) /\ FitsFaults
    \/ \E a \in DOMAIN appts : cancel_appointment(a)
    \/ create_urgent_surgery_doctor("d1", "d1", Today, 540, 570) /\ FitsFaults
    \/ \E s \in DOMAIN surgeries :
           LET conflicts == get_conflicting_appointments(appts, surgeries[s])
           IN  \E note \in SUBSET conflicts, mail \in SUBSET conflicts :
                   /\ bulk_reschedule_appointments_faulty("d1", s, own_time(conflicts),
                                                          Faults(note, mail))
                   /\ FitsFaults

SpecFaults == Init /\ [][NextFaults]_vars

\* The runs of SpecPosted: appointments inside and outside a surgery window, some
\* cancelled, and bulk reschedules whose POST data names every stored
\* appointment, with or without new_date and new_time.
FitsPosted ==
    /\ Len(appts') <= MaxPostedAppts
    /\ Len(surgeries') <= MaxPostedSurgeries
    /\ Len(reschedules') <= MaxPostedRecords

Posted == [DOMAIN appts -> {Proposal(Today, 585), Proposal(Today, 615), NoProposal}]

NextPosted ==
    \/ \E t \in {540, 555, 600} : create_appointment("d1", Today, t) /\ FitsPosted
    \/ \E a \in DOMAIN appts : cancel_appointment(a)
    \/ create_urgent_surgery_doctor("d1", "d1", Today, 540, 570) /\ FitsPosted
    \/ \E s \in DOMAIN surgeries, props \in Posted :
           bulk_reschedule_appointments("d1", s, props) /\ FitsPosted

SpecPosted == Init /\ [][NextPosted]_vars

\* The runs of SpecLate: a surgery requested for a doctor, that doctor's
\* decisions and the bulk reschedule for the surgery, the checks and the writes
\* of these requests interleaved.
FitsLate ==
    /\ Len(appts') <= MaxLateAppts
    /\ Len(surgeries') <= MaxLateSurgeries
    /\ Len(reschedules') <= MaxLateRecords
    /\ Len(inflight') <= MaxLateInflight

LateProposals(s) ==
    [get_conflicting_appointments(appts, surgeries[s]) -> {Proposal(Today, 585)}]

NextLate ==
    \/ create_appointment("d1", Today, 540) /\ FitsLate
    \/ \E a \in DOMAIN appts : cancel_appointment(a)
    \/ create_urgent_surgery_receptionist("d1", Today, 540, 570) /\ FitsLate
    \/ \E s \in DOMAIN surgeries, status \in {"APPROVED", "REJECTED"} :
           check_approve_surgery("d1", s, status, TRUE) /\ FitsLate
    \/ \E k \in DOMAIN inflight : save_surgery(k)
    \/ \E s \in DOMAIN surgeries :
           \E props \in LateProposals(s) :
               check_bulk_reschedule_appointments("d1", s, props) /\ FitsLate
    \/ \E k \in DOMAIN inflight : process(k) /\ FitsLate

SpecLate == Init /\ [][NextLate]_vars

\* The runs of SpecStatus: the appointments of one doctor, the requests that
\* change their status, and single reschedules whose save() comes after other
\* requests have run.
FitsStatus == Len(appts') <= MaxStatusAppts /\ Len(inflight') <= MaxStatusInflight

NextStatus ==
    \/ \E t \in {540, 600} : create_appointment("d1", Today, t) /\ FitsStatus
    \/ \E a \in DOMAIN appts : check_reschedule_appointment(a, Today, 645) /\ FitsStatus
    \/ \E k \in DOMAIN inflight : save(k)
    \/ \E a \in DOMAIN appts : cancel_appointment(a)
    \/ \E u \in Doctors, a \in DOMAIN appts :
           \E status \in {"COMPLETED", "NO_SHOW", "SCHEDULED"} :
               update_appointment_status(u, a, status)
    \/ \E u \in Doctors, a \in DOMAIN appts : add_medical_record(u, a)

SpecStatus == Init /\ [][NextStatus]_vars

\* The runs of SpecReminders: appointments booked for tomorrow, cancelled and
\* moved by the receptionists, the hourly runs of the reminder job one after the
\* other, and the days going by between runs.
FitsReminders ==
    /\ Len(appts') <= MaxReminderAppts
    /\ Len(inflight') <= MaxReminderInflight
    /\ Len(outbox') <= MaxMails

NextReminders ==
    \/ \E t \in {540, 600} : create_appointment("d1", Today + 1, t) /\ FitsReminders
    \/ \E a \in DOMAIN appts : cancel_appointment(a)
    \/ \E a \in DOMAIN appts :
           check_reschedule_appointment(a, Today + 1, 645) /\ FitsReminders
    \/ \E k \in DOMAIN inflight : save(k)
    \/ handle /\ FitsReminders
    \/ \E k \in DOMAIN inflight, outcome \in Outcomes : remind(k, outcome) /\ FitsReminders
    \/ inflight = << >> /\ next_day

SpecReminders == Init /\ [][NextReminders]_vars

\* ------------------------------------------------------------------ properties
bulk_answer(reason) ==
    last.op = "bulk_reschedule_appointments" /\ last.reason = reason

\* C1: a bulk reschedule in which at least one proposal fails validation changes
\* no appointment's date or time and creates no AppointmentReschedule and no
\* Notification.
C1_AllOrNothingOnValidationFailure ==
    [][bulk_answer("VALIDATION_FAILED")'
           => appts' = appts /\ reschedules' = reschedules /\ notifs' = notifs]_vars

\* a batch of two in which one proposal passed and the other failed was refused
C1_Witness ==
    /\ bulk_answer("VALIDATION_FAILED")
    /\ last.errors = 1
    /\ Cardinality(get_conflicting_appointments(appts, surgeries[last.target])) = 2

\* C2: a bulk reschedule whose commit is refused by the store (IntegrityError of
\* save()) leaves no part of the batch behind: no appointment moved, no
\* AppointmentReschedule and no Notification written.
C2_RollbackOnStoreConflict ==
    [][bulk_answer("INTEGRITY_ERROR")'
           => appts' = appts /\ reschedules' = reschedules /\ notifs' = notifs]_vars

\* C3: an accepted bulk reschedule never moves one appointment of the conflict
\* set while another appointment of that set is still SCHEDULED for the surgery's
\* doctor on the surgery date inside the surgery window.
C3_NoneLeftInWindow ==
    [][bulk_answer("OK")' =>
           LET surgery == surgeries[last'.target]
               before == get_conflicting_appointments(appts, surgery)
               after == get_conflicting_appointments(appts', surgery)
           IN  \A a \in before, b \in before :
                   ~ /\ a # b
                     /\ <<appts'[a].date, appts'[a].time>> # <<appts[a].date, appts[a].time>>
                     /\ b \in after]_vars

\* the requests put to the call sites in the properties below
ReqTimes == {525, 600, 605, 615, 620, 1200}
SlotReasons == {"OUTSIDE_HOURS", "DOCTOR_UNAVAILABLE", "SLOT_FULL", "TIME_ALREADY_BOOKED"}

\* what the four call sites answer to a request for (d, dt, t): the booking form
\* offers the times of slots only; a follow-up is asked for by the doctor of its
\* parent; a bulk item belongs to a batch that passed the early returns
site_reasons(d, dt, t) ==
    (IF t \in slots THEN {create_appointment_checks(appts, avail, d, dt, t)} ELSE {})
    \cup {create_follow_up_checks(appts, avail, d, a, dt, t) :
              a \in {i \in DOMAIN appts : appts[i].doctor = d}}
    \cup {reschedule_appointment_checks(appts, avail, a, dt, t) :
              a \in {i \in DOMAIN appts : appts[i].doctor = d}}
    \cup UNION {{bulk_item_reason(appts, avail, d, a, Proposal(dt, t)) :
                     a \in get_conflicting_appointments(appts, surgeries[s])} :
                s \in {i \in DOMAIN surgeries :
                          bulk_reschedule_checks(appts, surgeries, d, i) = "OK"}}

outside_hours(t) == t < time(9, 0) \/ t >= time(20, 0)

covered(d, dt, t) ==
    \E w \in Range(avail) :
        /\ w.doctor = d
        /\ w.start_time <= t /\ t < w.end_time
        /\ (w.is_recurring \/ w.date = dt)

\* the SCHEDULED appointments of d on dt in the quarter hour of t
in_slot(d, dt, t) ==
    {i \in DOMAIN appts : /\ appts[i].doctor = d /\ appts[i].date = dt
                          /\ appts[i].status = "SCHEDULED"
                          /\ hour(appts[i].time) = hour(t)
                          /\ minute(appts[i].time) \div 15 = minute(t) \div 15}

\* C5: for every doctor, date and aligned 15-minute slot at most two SCHEDULED
\* appointments lie in the slot, also after a bulk reschedule that moves three
\* appointments to three minutes of one empty slot.
C5_AtMostTwoPerSlot ==
    \A i \in DOMAIN appts :
        appts[i].status = "SCHEDULED"
            => Cardinality(in_slot(appts[i].doctor, appts[i].date, appts[i].time)) <= 2

\* C6: a request for a time before 09:00 or from 20:00 on is answered
\* OUTSIDE_HOURS at every call site, whatever windows and appointments exist.
C6_OutsideHoursEverywhere ==
    \A d \in Doctors, t \in ReqTimes :
        outside_hours(t) => site_reasons(d, Today, t) \subseteq {"OUTSIDE_HOURS"}

\* C7: the checks run in the order hours, availability, capacity, duplicate at
\* every call site: a request answered with the reason of one check violates no
\* earlier check.
C7_FirstViolationWins ==
    \A d \in Doctors, t \in ReqTimes :
        \A r \in site_reasons(d, Today, t) :
            /\ r = "DOCTOR_UNAVAILABLE" => ~outside_hours(t)
            /\ r = "SLOT_FULL" => ~outside_hours(t) /\ ~covered(d, Today, t)
            /\ r = "TIME_ALREADY_BOOKED" => ~outside_hours(t) /\ ~covered(d, Today, t)

\* C8: a request inside operating hours is answered DOCTOR_UNAVAILABLE exactly
\* when a window of the same doctor covers its time (start inclusive, end
\* exclusive) and is recurring or on its date.
C8_UnavailableIffCovered ==
    \A d \in Doctors, dt \in Dates, t \in ReqTimes :
        ~outside_hours(t) =>
            \A r \in site_reasons(d, dt, t) \cap (SlotReasons \cup {"OK"}) :
                r = "DOCTOR_UNAVAILABLE" <=> covered(d, dt, t)

\* C9: a request that passes hours and availability is answered SLOT_FULL only
\* if two or more SCHEDULED appointments of the doctor on the date lie in its
\* 15-minute slot; one appointment in the slot does not fill it, at any call site.
C9_FullOnlyFromTwo ==
    \A d \in Doctors, t \in ReqTimes :
        "SLOT_FULL" \in site_reasons(d, Today, t)
            => Cardinality(in_slot(d, Today, t)) >= 2

\* C10: the capacity check of a booking at 10:15 counts the appointments of
\* 10:15-10:29 only: with fewer than two SCHEDULED appointments there the booking
\* is not answered SLOT_FULL, whatever lies in 10:00-10:14 and in 10:30-10:59.
C10_NeighbourSlotsDoNotCount ==
    create_appointment_checks(appts, avail, "d1", Today, time(10, 15)) = "SLOT_FULL"
        => Cardinality({i \in DOMAIN appts :
                           /\ appts[i].doctor = "d1" /\ appts[i].date = Today
                           /\ appts[i].status = "SCHEDULED"
                           /\ appts[i].time >= time(10, 15)
                           /\ appts[i].time <= time(10, 29)}) >= 2

\* C4: in every state, also of runs that interleave the checks and the writes of
\* concurrent bookings, follow-ups, reschedules and bulk reschedules, no two
\* SCHEDULED appointments have the same doctor, date and time.
C4_NoDoubleBooking ==
    \A i \in DOMAIN appts, j \in DOMAIN appts :
        /\ i # j
        /\ appts[i].status = "SCHEDULED" /\ appts[j].status = "SCHEDULED"
        => <<appts[i].doctor, appts[i].date, appts[i].time>>
               # <<appts[j].doctor, appts[j].date, appts[j].time>>

\* of two bookings that both passed their checks for one time, the store took
\* the first and refused the second
C4_Witness ==
    /\ last.op = "create_appointment" /\ last.reason = "INTEGRITY_ERROR"
    /\ \E i \in DOMAIN appts :
           appts[i].status = "SCHEDULED" /\ appts[i].time = 540 /\ appts[i].parent = None

\* C11: only SCHEDULED appointments block a request: a booking for a time at
\* which the only appointments of the doctor's day are CANCELLED, COMPLETED or
\* NO_SHOW, inside hours and outside every window, is persisted.
C11_OnlyScheduledBlocks ==
    [][\A t \in {540, 555} :
           (/\ \E i \in DOMAIN appts :
                   <<appts[i].doctor, appts[i].date, appts[i].time>> = <<"d1", Today, t>>
            /\ \A i \in DOMAIN appts : appts[i].status # "SCHEDULED"
            /\ ~covered("d1", Today, t)
            /\ create_appointment("d1", Today, t))
           => (/\ last'.reason = "OK"
               /\ appts' = Append(appts, Appointment("d1", Today, t, None)))]_vars

\* the appointments that C12 speaks of: SCHEDULED, inside hours, outside every
\* window, alone in their slot
alone_in_slot(X) ==
    /\ appts[X].status = "SCHEDULED"
    /\ ~outside_hours(appts[X].time)
    /\ ~covered(appts[X].doctor, appts[X].date, appts[X].time)
    /\ in_slot(appts[X].doctor, appts[X].date, appts[X].time) = {X}

\* rescheduling X to the date and time it has: the single reschedule succeeds
\* and changes nothing of X; as an item of a bulk reschedule X passes, and an
\* accepted batch changes nothing of X
kept_in_place(X) ==
    LET own == Proposal(appts[X].date, appts[X].time)
    IN  /\ reschedule_appointment(X, appts[X].date, appts[X].time)
               => last'.reason = "OK" /\ appts'[X] = appts[X]
        /\ \A s \in DOMAIN surgeries :
               \A props \in SelfProposals(get_conflicting_appointments(appts, surgeries[s])) :
                   (/\ X \in DOMAIN props
                    /\ props[X] = own
                    /\ bulk_reschedule_appointments("d1", s, props))
                   => (/\ X \notin item_errors(appts, avail, "d1", DOMAIN props, props)
                       /\ last'.reason = "OK" => appts'[X] = appts[X])

\* C12 (as amended): an appointment that is alone in its slot and whose date is
\* not before the current date can be rescheduled to the date and time it has, at
\* the single reschedule and as a bulk-reschedule item, and stays as it is.
C12_SelfExclusionFromToday ==
    [][\A X \in DOMAIN appts :
           alone_in_slot(X) /\ appts[X].date >= Today => kept_in_place(X)]_vars

\* C12 (as stated): the same for every appointment that is alone in its slot,
\* whatever its date.
C12_SelfExclusion ==
    [][\A X \in DOMAIN appts : alone_in_slot(X) => kept_in_place(X)]_vars

\* today's appointment, alone in its slot, was kept in place by an accepted bulk
\* reschedule
C12_Witness ==
    /\ bulk_answer("OK")
    /\ \E r \in Range(reschedules) :
           /\ r.original_date = r.new_date /\ r.original_time = r.new_time
           /\ r.new_date = Today
           /\ alone_in_slot(r.appointment)

\* the appointments that stand in the way of surgery s: of its doctor, on its
\* date, SCHEDULED, from its start up to but not at its end
in_surgery_window(s) ==
    {i \in DOMAIN appts : /\ appts[i].doctor = surgeries[s].doctor
                          /\ appts[i].date = surgeries[s].date
                          /\ appts[i].status = "SCHEDULED"
                          /\ surgeries[s].start_time <= appts[i].time
                          /\ appts[i].time < surgeries[s].end_time}

\* C13: the conflicts of a surgery are exactly the SCHEDULED appointments of its
\* doctor on its date with start <= time < end: none at the end, none that is
\* CANCELLED, COMPLETED or NO_SHOW, on another date or of another doctor.
C13_ConflictsExact ==
    \A s \in DOMAIN surgeries :
        /\ get_conflicting_appointments(appts, surgeries[s]) = in_surgery_window(s)
        /\ \A i \in get_conflicting_appointments(appts, surgeries[s]) :
               /\ appts[i].time # surgeries[s].end_time
               /\ appts[i].status \notin {"CANCELLED", "COMPLETED", "NO_SHOW"}
               /\ appts[i].date = surgeries[s].date
               /\ appts[i].doctor = surgeries[s].doctor

\* one appointment at the start of the surgery conflicts, one at its end does not
C13_Witness ==
    \E s \in DOMAIN surgeries, i \in DOMAIN appts, j \in DOMAIN appts :
        /\ appts[i].time = surgeries[s].start_time
        /\ i \in get_conflicting_appointments(appts, surgeries[s])
        /\ appts[j].time = surgeries[s].end_time
        /\ appts[j].status = "SCHEDULED"
        /\ appts[j].doctor = surgeries[s].doctor /\ appts[j].date = surgeries[s].date
        /\ j \notin get_conflicting_appointments(appts, surgeries[s])

\* C14: the conflicts are computed from the store when the bulk reschedule is
\* asked for: an accepted bulk reschedule moves and records exactly the
\* appointments in the surgery's window at that moment, none that was cancelled,
\* completed or moved away before; a refused one counts its errors among them.
C14_ConflictsRecomputed ==
    [][last'.op = "bulk_reschedule_appointments" /\ last'.reason \in {"OK", "VALIDATION_FAILED"} =>
           LET now == in_surgery_window(last'.target)
               new == {reschedules'[k].appointment :
                           k \in (Len(reschedules) + 1)..Len(reschedules')}
           IN  /\ \A a \in DOMAIN appts : appts'[a] # appts[a] => a \in now
               /\ last'.reason = "OK" => new = now
               /\ last'.errors <= Cardinality(now)]_vars

\* an accepted bulk reschedule passed over an appointment that was cancelled
\* inside the surgery's window
C14_Witness ==
    /\ bulk_answer("OK")
    /\ \E i \in DOMAIN appts :
           /\ appts[i].status = "CANCELLED"
           /\ appts[i].doctor = surgeries[last.target].doctor
           /\ appts[i].date = surgeries[last.target].date
           /\ appts[i].time >= surgeries[last.target].start_time
           /\ appts[i].time < surgeries[last.target].end_time
           /\ \A r \in Range(reschedules) : r.appointment # i

\* C18: no surgery is created for a date before the current date, and no
\* reschedule, single or bulk, gives an appointment a date before the current
\* date.
C18_NoPastDate ==
    [][/\ last'.op \in {"create_urgent_surgery_doctor", "create_urgent_surgery_receptionist"}
           => \A s \in DOMAIN surgeries' \ DOMAIN surgeries : surgeries'[s].date >= Today
       /\ last'.op \in {"reschedule_appointment", "bulk_reschedule_appointments"}
           => \A a \in DOMAIN appts :
                  appts'[a].date # appts[a].date => appts'[a].date >= Today]_vars

\* C15: a surgery is created APPROVED only if the requesting user is the doctor
\* it is assigned to; a surgery asked for by anyone else is created PENDING.
C15_ApprovedOnlyByOwnDoctor ==
    [][Len(surgeries') > Len(surgeries) =>
           LET new == surgeries'[Len(surgeries')]
           IN  /\ new.status = "APPROVED" => new.created_by = new.doctor
               /\ new.created_by # new.doctor => new.status = "PENDING"]_vars

\* the status of a surgery changes only from PENDING to APPROVED or REJECTED and
\* from APPROVED to COMPLETED
status_moves_forward ==
    \A s \in DOMAIN surgeries :
        surgeries'[s].status # surgeries[s].status
            => <<surgeries[s].status, surgeries'[s].status>>
                   \in {<<"PENDING", "APPROVED">>, <<"PENDING", "REJECTED">>,
                        <<"APPROVED", "COMPLETED">>}

\* an approve or reject request of a doctor of owners on a surgery that is not
\* PENDING is answered ALREADY_PROCESSED (by any doctor: changes nothing)
processed_once(owners(_)) ==
    \A u \in Doctors, s \in DOMAIN surgeries :
        \A status \in {"APPROVED", "REJECTED"}, has_reason \in BOOLEAN :
            (surgeries[s].status # "PENDING" /\ approve_surgery(u, s, status, has_reason))
                => (/\ surgeries' = surgeries /\ notifs' = notifs
                    /\ u \in owners(s) => last'.reason = "ALREADY_PROCESSED")

surgery_doctor(s) == {surgeries[s].doctor}
any_doctor(s) == Doctors

\* C16 (as amended): a surgery's status moves only along PENDING -> APPROVED,
\* PENDING -> REJECTED, APPROVED -> COMPLETED; an approve or reject request of
\* the surgery's doctor on a surgery that is not PENDING is answered
\* ALREADY_PROCESSED, and such a request of any doctor changes no surgery and
\* creates no notification.
C16_LifecycleForOwner ==
    [][status_moves_forward /\ processed_once(surgery_doctor)]_vars

\* C16 (as stated): the same, with ALREADY_PROCESSED for every approve or reject
\* request on a surgery that is not PENDING.
C16_Lifecycle ==
    [][status_moves_forward /\ processed_once(any_doctor)]_vars

\* the surgery's doctor asked again about a surgery that was approved or rejected
C16_Witness ==
    /\ last.op = "approve_surgery" /\ last.reason = "ALREADY_PROCESSED"
    /\ surgeries[last.target].status \in {"APPROVED", "REJECTED"}
    /\ surgeries[last.target].created_by = "receptionist"

\* C17: a doctor acting on a surgery, window or appointment of another doctor is
\* answered NOT_OWNER and nothing in the store changes: approve_surgery, bulk
\* reschedule, delete_availability, update_appointment_status, create_follow_up.
C17_NotOwnerChangesNothing ==
    [][\A u \in Doctors :
           /\ \A s \in DOMAIN surgeries :
                  surgeries[s].doctor # u =>
                      /\ \A status \in {"APPROVED", "REJECTED"}, has_reason \in BOOLEAN :
                             approve_surgery(u, s, status, has_reason)
                                 => last'.reason = "NOT_OWNER" /\ UNCHANGED store
                      /\ \A props \in [get_conflicting_appointments(appts, surgeries[s])
                                           -> {Proposal(Today, 585)}] :
                             bulk_reschedule_appointments(u, s, props)
                                 => last'.reason = "NOT_OWNER" /\ UNCHANGED store
           /\ \A w \in DOMAIN avail :
                  (avail[w].doctor # u /\ delete_availability(u, w))
                      => last'.reason = "NOT_OWNER" /\ UNCHANGED store
           /\ \A a \in DOMAIN appts :
                  appts[a].doctor # u =>
                      /\ \A status \in {"COMPLETED", "SCHEDULED"} :
                             update_appointment_status(u, a, status)
                                 => last'.reason = "NOT_OWNER" /\ UNCHANGED store
                      /\ create_follow_up(u, a, Today, 600)
                             => last'.reason = "NOT_OWNER" /\ UNCHANGED store]_vars

\* another doctor asked for the bulk reschedule of an approved surgery that has
\* conflicts
C17_Witness ==
    /\ bulk_answer("NOT_OWNER")
    /\ surgeries[last.target].status = "APPROVED"
    /\ get_conflicting_appointments(appts, surgeries[last.target]) # {}

\* the rows a batch wrote: the AppointmentReschedule and Notification rows that
\* follow the ones there were before
written(before, after) == SubSeq(after, Len(before) + 1, Len(after))

\* every proposal of the batch is applied on the step: each appointment is on its
\* proposed date and time, one AppointmentReschedule per appointment links the
\* date and time it had to the proposed ones and to the surgery, one
\* APPOINTMENT_RESCHEDULED notification per appointment, and success is answered
applied(s, conflicts, props) ==
    LET records == written(reschedules, reschedules')
        notes == written(notifs, notifs')
    IN  /\ last'.reason = "OK"
        /\ \A a \in conflicts :
               /\ appts'[a].date = props[a].date
               /\ appts'[a].time = props[a].time
               /\ Cardinality({k \in DOMAIN records : records[k].appointment = a}) = 1
               /\ \A k \in DOMAIN records :
                      records[k].appointment = a =>
                          /\ records[k].original_date = appts[a].date
                          /\ records[k].original_time = appts[a].time
                          /\ records[k].new_date = props[a].date
                          /\ records[k].new_time = props[a].time
                          /\ records[k].urgent_surgery = s
               /\ Cardinality({k \in DOMAIN notes :
                                   /\ notes[k].type = "APPOINTMENT_RESCHEDULED"
                                   /\ notes[k].appointment = a}) = 1
        /\ Len(records) = Cardinality(conflicts)
        /\ Len(notes) = Cardinality(conflicts)

\* C19: a bulk reschedule in which every one of the n proposals passes validation
\* applies them all: each of the n appointments has its proposed date and time,
\* exactly n new AppointmentReschedule rows exist, one per appointment, with the
\* date and time from before the batch as original, the proposed ones as new and
\* the surgery as urgent_surgery, exactly one APPOINTMENT_RESCHEDULED notification
\* was created per appointment, and success is reported for all n.
C19_AllValidAllApplied ==
    [][\A u \in Doctors, s \in DOMAIN surgeries :
           LET conflicts == get_conflicting_appointments(appts, surgeries[s])
           IN  \A props \in [conflicts -> Proposals] :
                   /\ bulk_reschedule_appointments(u, s, props)
                   /\ bulk_reschedule_checks(appts, surgeries, u, s) = "OK"
                   /\ all_valid(appts, avail, u, conflicts, props)
                   => applied(s, conflicts, props)]_vars

\* a stored window ends after it starts and is recurring exactly when it has no date
well_formed(w) ==
    /\ w.end_time > w.start_time
    /\ w.is_recurring <=> w.date = NoDate

\* C20: every availability window created through manage_availability has its end
\* time strictly after its start time and is recurring if and only if it carries
\* no date; a request marked recurring that also supplies a date is stored with
\* no date, and a non-recurring request without a date is rejected and stores
\* nothing.
C20_WindowsWellFormed ==
    /\ [](\A w \in DOMAIN avail : well_formed(avail[w]))
    /\ [][\A rec \in BOOLEAN, dt \in {NoDate, Today}, st \in WinTimes, en \in WinTimes :
              manage_availability("d1", rec, dt, st, en) =>
                  /\ rec /\ dt # NoDate /\ Len(avail') > Len(avail)
                         => avail'[Len(avail')].date = NoDate
                  /\ ~rec /\ dt = NoDate
                         => last'.reason = "FORM_INVALID" /\ avail' = avail]_vars

\* a recurring window and a window of one date are stored, the later of them by
\* the request just answered
C20_Witness ==
    /\ last.op = "manage_availability" /\ last.reason = "OK"
    /\ \E v \in DOMAIN avail : avail[v].is_recurring /\ avail[v].date = NoDate
    /\ \E w \in DOMAIN avail : ~avail[w].is_recurring /\ avail[w].date = Today

\* the appointments reached from a by following parent references, at most n of them
RECURSIVE ancestors(_, _, _)
ancestors(ap, a, n) ==
    IF n = 0 \/ ap[a].parent = None \/ ap[a].parent \notin DOMAIN ap THEN {}
    ELSE {ap[a].parent} \cup ancestors(ap, ap[a].parent, n - 1)

acyclic(ap) == \A a \in DOMAIN ap : a \notin ancestors(ap, a, Len(ap))

\* C21: the parent relation over appointments is acyclic in every reachable state:
\* following parent references from an appointment never returns to it and no
\* appointment is its own parent; no operation changes the parent of an existing
\* appointment to one of its descendants.
C21_ParentAcyclic ==
    /\ [](acyclic(appts) /\ \A a \in DOMAIN appts : appts[a].parent # a)
    /\ [][\A a \in DOMAIN appts :
              appts'[a].parent # appts[a].parent
                  => \A b \in DOMAIN appts :
                         a \in ancestors(appts, b, Len(appts)) => appts'[a].parent # b]_vars

\* a follow-up of a follow-up has been created
C21_Witness ==
    /\ last.op = "create_follow_up" /\ last.reason = "OK"
    /\ \E a \in DOMAIN appts :
           /\ appts[a].parent # None
           /\ appts[appts[a].parent].parent # None

\* C22: the capacity of two per slot holds under concurrency: when bookings and
\* follow-ups for different minutes of one quarter hour of a doctor's day each
\* read the slot before any of them writes, no state holds more than two
\* SCHEDULED appointments in that slot.
C22_CapacityUnderConcurrency ==
    \A d \in Doctors, t \in RaceTimes : Cardinality(in_slot(d, Today, t)) <= 2

\* the notifications of a decision on surgery s
decision_notes(s, type) ==
    {k \in DOMAIN notifs : notifs[k].surgery = s /\ notifs[k].type = type}

\* C23: a PENDING surgery is resolved exactly once, also when two approve or
\* reject requests for it both read PENDING before either writes: an APPROVED
\* surgery never becomes REJECTED nor a REJECTED one APPROVED, and no surgery has
\* both an approval and a rejection notification.
C23_ResolvedOnce ==
    /\ [][\A s \in DOMAIN surgeries :
              surgeries[s].status \in {"APPROVED", "REJECTED"}
                  => surgeries'[s].status = surgeries[s].status]_vars
    /\ [](\A s \in DOMAIN surgeries :
              decision_notes(s, "SURGERY_APPROVED") = {}
                  \/ decision_notes(s, "SURGERY_REJECTED") = {})

\* C24: in a bulk reschedule no patient notification of the batch is emitted
\* before every appointment of the batch has been moved and its
\* AppointmentReschedule written: when a pass of the processing loop creates a
\* notification, no appointment the request still holds is on its original date
\* and time.
C24_NotifyAfterCommit ==
    [][\A k \in DOMAIN inflight :
           process(k) /\ Len(notifs') > Len(notifs)
               => \A i \in DOMAIN inflight[k].datas :
                      LET data == inflight[k].datas[i]
                      IN  /\ appts'[data.appointment].date = data.new_date
                          /\ appts'[data.appointment].time = data.new_time]_vars

\* C25: a failure to deliver the notification for one appointment (creating the
\* in-app notification or sending the e-mail) never fails the reschedule: in a
\* batch whose proposals all passed validation every appointment ends at its
\* proposed date and time with its AppointmentReschedule written, whichever
\* deliveries fail.
C25_DeliveryFailureHarmless ==
    [][\A s \in DOMAIN surgeries :
           LET conflicts == get_conflicting_appointments(appts, surgeries[s])
               props == own_time(conflicts)
           IN  \A note \in SUBSET conflicts, mail \in SUBSET conflicts :
                   /\ bulk_reschedule_appointments_faulty("d1", s, props, Faults(note, mail))
                   /\ bulk_reschedule_checks(appts, surgeries, "d1", s) = "OK"
                   /\ all_valid(appts, avail, "d1", conflicts, props)
                   => \A a \in conflicts :
                          /\ appts'[a].date = props[a].date
                          /\ appts'[a].time = props[a].time
                          /\ \E k \in DOMAIN reschedules' \ DOMAIN reschedules :
                                 reschedules'[k].appointment = a]_vars

\* appointment a is left as it was: same row, no new AppointmentReschedule, no
\* new notification
untouched(a) ==
    /\ appts'[a] = appts[a]
    /\ \A k \in DOMAIN reschedules' \ DOMAIN reschedules : reschedules'[k].appointment # a
    /\ \A k \in DOMAIN notifs' \ DOMAIN notifs : notifs'[k].appointment # a

\* C26: a bulk reschedule changes the store only if a valid proposal was posted
\* for every appointment of the surgery's current conflict set: a request that
\* lacks the proposal for one of them is refused as a whole and moves none of the
\* others, and what is posted for appointments outside the conflict set is ignored.
C26_ProposalForEveryConflict ==
    [][\A s \in DOMAIN surgeries, props \in Posted :
           bulk_reschedule_appointments("d1", s, props) =>
               LET conflicts == get_conflicting_appointments(appts, surgeries[s])
               IN  /\ <<appts, reschedules, notifs>>' # <<appts, reschedules, notifs>>
                          => \A a \in conflicts :
                                 bulk_item_reason(appts, avail, "d1", a, props[a]) = "OK"
                   /\ (\E a \in conflicts : ~props[a].given)
                          => /\ last'.reason = "VALIDATION_FAILED"
                             /\ \A a \in DOMAIN appts : untouched(a)
                   /\ \A a \in DOMAIN appts \ conflicts : untouched(a)]_vars

\* a batch was applied while an appointment outside the window stayed where it was
C26_Witness ==
    /\ bulk_answer("OK")
    /\ reschedules # << >>
    /\ \E a \in DOMAIN appts :
           /\ appts[a].status = "SCHEDULED" /\ appts[a].time = 600
           /\ \A k \in DOMAIN reschedules : reschedules[k].appointment # a

\* C27: a bulk reschedule happens only after approval. A request for a surgery
\* that is PENDING or REJECTED is refused and writes nothing, and so is a request
\* for an APPROVED surgery without conflicting appointments; every
\* AppointmentReschedule is written while the surgery it names is APPROVED.
C27_OnlyAfterApproval ==
    [][/\ \A s \in DOMAIN surgeries : \A props \in LateProposals(s) :
              check_bulk_reschedule_appointments("d1", s, props) =>
                  /\ surgeries[s].status # "APPROVED"
                         => last'.reason = "NOT_APPROVED" /\ inflight' = inflight
                  /\ surgeries[s].status = "APPROVED"
                     /\ get_conflicting_appointments(appts, surgeries[s]) = {}
                         => last'.reason = "NO_CONFLICTS" /\ inflight' = inflight
       /\ \A k \in DOMAIN reschedules' \ DOMAIN reschedules :
              surgeries'[reschedules'[k].urgent_surgery].status = "APPROVED"]_vars

\* the conflict set of surgery s was emptied by its bulk reschedule
emptied(s) ==
    /\ surgeries[s].status = "APPROVED"
    /\ get_conflicting_appointments(appts, surgeries[s]) = {}
    /\ \E k \in DOMAIN reschedules : reschedules[k].urgent_surgery = s

\* C28: once a surgery is APPROVED and its conflict set has been emptied, no later
\* booking, follow-up, single reschedule or bulk item places a SCHEDULED
\* appointment of the surgery's doctor inside the surgery window on the surgery
\* date: the conflict set stays empty.
C28_WindowStaysClear ==
    [][\A s \in DOMAIN surgeries :
           emptied(s) /\ surgeries'[s] = surgeries[s]
               => get_conflicting_appointments(appts', surgeries'[s]) = {}]_vars

\* C29: an appointment is SCHEDULED only from its creation: once its status is
\* COMPLETED, NO_SHOW or CANCELLED no operation sets it back to SCHEDULED, so the
\* slot and the time it freed are never taken again by the same appointment.
C29_NeverScheduledAgain ==
    [][\A a \in DOMAIN appts :
           appts[a].status # "SCHEDULED" => appts'[a].status # "SCHEDULED"]_vars

\* the reminder e-mails sent for appointment a
reminders(a) == {k \in DOMAIN outbox : outbox[k].appointment = a}

\* C30: over runs of the reminder job that do not overlap, each appointment gets
\* at most one reminder e-mail, and only while it is SCHEDULED and dated the day
\* after the run; reminder_sent becomes true exactly when a send succeeded, and a
\* failed send leaves it false, to be retried by the next run, without stopping
\* the run.
C30_OneReminderWhileScheduled ==
    /\ [](\A a \in DOMAIN appts : Cardinality(reminders(a)) <= 1)
    /\ [][/\ Len(outbox') > Len(outbox)
              => LET a == outbox'[Len(outbox')].appointment
                 IN  /\ appts[a].status = "SCHEDULED"
                     /\ appts[a].date = Today + 1
                     /\ appts'[a].reminder_sent
          /\ \A a \in DOMAIN appts :
                 ~appts[a].reminder_sent /\ appts'[a].reminder_sent
                     => Len(outbox') > Len(outbox) /\ outbox'[Len(outbox')].appointment = a
          /\ \A k \in DOMAIN inflight :
                 remind(k, "SEND_FAILED")
                     => /\ appts' = appts
                        /\ Len(inflight[k].datas) > 1 => Len(inflight') = Len(inflight)]_vars

====
